---- MODULE Spec2Model ----
(***************************************************************************)
(* A model of the moleculer-tcp gateway mixin (src/index.js): the          *)
(* connections map, the handlers wired to the net.Server and to every      *)
(* accepted net.Socket, the public actions, and the notifications the      *)
(* service publishes on the broker.                                        *)
(*                                                                         *)
(* The net.Server and the net.Socket of the platform are modelled by their *)
(* documented contract: a socket emits 'close' exactly once, an 'error' is *)
(* directly followed by 'close', destroy() makes the socket emit 'close',  *)
(* end() half-closes it (data may still arrive until the peer closes), and *)
(* a server that has been closed emits 'close' once no connection is left. *)
(* A handler runs to completion before the next event is delivered, so     *)
(* every event together with its handler is one step.                      *)
(***************************************************************************)
EXTENDS Naturals, Sequences, FiniteSets

VARIABLES
  server,       \* the listener: "idle", "listening", "closing", "closed", "failed"
  settings,     \* [maxConnections, timeout]; 0 stands for an unset value
  connections,  \* this.connections: id -> [id, socket, metadata]
  transports,   \* every transport the listener was offered, in arrival order
  issued,       \* the ids uuid() has returned so far
  pendingClose, \* 'close' events of the server scheduled and not yet emitted
  bus,          \* the notifications published with broker.emit, in order
  stopInfo,     \* history: what stopped() found, [open, at], or NotStopped
  closeCalls,   \* history: id -> socketClose calls that found the id, counted up to 2
  startup,      \* the promise of startServer: Pending, Resolved, Rejected(error)
  reply,        \* what the last action that returned a value or threw left
  env           \* process.env: the variables that are set, name -> value

vars ==
  <<server, settings, env, connections, transports, issued, pendingClose, bus,
    stopInfo, closeCalls, startup, reply>>

----------------------------------------------------------------------------
\* Bounds of the model.

\* transports offered to the listener over its lifetime
MaxAccepts == 2

\* notifications published over the lifetime
MaxBus == 5

\* largest configured maxConnections
MaxLimit == 1

\* writes the sockets accept over the lifetime
MaxWrites == 1

----------------------------------------------------------------------------
\* Values.

Ids == 1 .. MaxAccepts

NotStopped == [open |-> 0, at |-> MaxBus + 1]

LocalAddress == "127.0.0.1"

\* the default of settings.port
DefaultPort == 8181

\* settings.timeout of the service under test
TimeoutMs == 100

\* The remote endpoint of the a-th transport offered to the listener: the
\* clients alternate between two hosts, each transport has its own port.
RemoteEndpoint(a) ==
  [remoteAddress |-> IF a % 2 = 1 THEN "10.0.0.1" ELSE "10.0.0.2",
   remotePort |-> 5000 + a]

\* The keys and values the callers of setMetadata and deleteMetadata use.
MetaKeys == {"foo"}

MetaValues == {"bar"}

\* The data the callers of socketWrite send.
WriteData == {"foo"}

\* The entries the callers of mergeMetadata send: the one of the test, and
\* one that overwrites its key with another value and adds a second key.
MergeData ==
  { <<[key |-> "foo", value |-> "bar"]>>,
    <<[key |-> "foo", value |-> "qux"], [key |-> "lang", value |-> "en"]>> }

MergeKeys == UNION { { data[i].key : i \in 1 .. Len(data) } : data \in MergeData }

\* The values the environment variables are given.  The value of the port
\* variable is a string of characters, that of the host variable is opaque.
PortValues ==
  { << >>, <<"1", "2", "3", "4">>, <<"0", "1", "0">>, <<"8", "0", "a">>,
    <<"a", "b">>, <<" ", "4", "2">>, <<"-", "7">> }

HostValues == {"", "localhost", "0.0.0.0"}

\* The numbers parseInt returns.
NaN == [number |-> "NaN"]

Int(negative, magnitude) ==
  [number |-> "finite", negative |-> negative, magnitude |-> magnitude]

\* The states of the promise startServer returns.
Pending == [state |-> "pending"]
Resolved == [state |-> "resolved"]
Rejected(error) == [state |-> "rejected", error |-> error]

\* The errors the server emits: the one of a listen() that cannot bind, and
\* one of a listening server.
BindFailure == [syscall |-> "listen", code |-> "EADDRINUSE"]
AcceptFailure == [syscall |-> "accept", code |-> "EMFILE"]

\* The outcomes of a public action.
NoReply == [result |-> "none"]

Ok == [result |-> "ok"]

Returned(value) == [result |-> "ok", value |-> value]

ReturnedAll(metadata) == [result |-> "ok", metadata |-> metadata]

NotFound ==
  [result |-> "error", type |-> "CONNECTION_NOT_FOUND",
   message |-> "connection not found"]

\* What the handlers of the socket events throw for an id they do not know.
NotFoundId(id) ==
  [result |-> "error", type |-> "CONNECTION_NOT_FOUND",
   message |-> "connection not found: ", id |-> id]

\* metadata[key]: reading a key that is not there yields undefined.
lookup(metadata, key) ==
  IF key \in DOMAIN metadata THEN metadata[key] ELSE "undefined"

----------------------------------------------------------------------------
\* The platform's view of the sockets.

Admitted == { a \in 1 .. Len(transports) : transports[a].fate = "admitted" }

Dropped == { a \in 1 .. Len(transports) : transports[a].fate = "dropped" }

\* net.Server counts a connection until its socket has closed.
openCount == Cardinality({ a \in Admitted : transports[a].state # "closed" })

\* the number of writes the sockets have accepted
written ==
  Cardinality({ w \in (1 .. Len(transports)) \X (1 .. MaxWrites) :
                  w[2] <= Len(transports[w[1]].wrote) })

\* An end() that opens a socket that was not open.
socketEndReopening(s) == IF s = "open" THEN "ended" ELSE "open"

\* socket.end(): half-closes an open socket, nothing on any other.
socketEnd(s) == IF s = "open" THEN "ended" ELSE s

\* socket.destroy(): the socket is torn down and will emit 'close'; nothing
\* on a socket already destroyed or closed.
socketDestroy(s) == IF s \in {"open", "ended"} THEN "destroyed" ELSE s

\* The first trigger that finds the socket open is remembered as its cause.
touch(t, a, s, why) ==
  [t EXCEPT ![a].state = s,
            ![a].cause = IF t[a].state = "open" THEN why ELSE @]

CanEmit == Len(bus) < MaxBus

\* A publication that overtakes the notifications published before it.
emitFirst(n) == bus' = <<n>> \o bus

\* A publication that overtakes all notifications but the oldest.
emitOvertaking(n) ==
  bus' = IF bus = << >> THEN <<n>> ELSE <<Head(bus), n>> \o Tail(bus)

\* broker.emit: the notifications reach the bus in the order of the calls.
emit(n) == bus' = Append(bus, n)

----------------------------------------------------------------------------
\* The state after created(): no connection, nothing published, the
\* listener not yet bound.  The settings are those of the service schema.

Init ==
  /\ server = "idle"
  /\ settings \in [maxConnections : 0 .. MaxLimit, timeout : {0, TimeoutMs}]
  /\ connections = << >>
  /\ transports = << >>
  /\ issued = {}
  /\ pendingClose = 0
  /\ bus = << >>
  /\ stopInfo = NotStopped
  /\ closeCalls = [id \in Ids |-> 0]
  /\ startup = Pending
  /\ reply = NoReply
  /\ env = << >>

----------------------------------------------------------------------------
\* The settings of the schema: getters over process.env.

IsDigit(c) == c \in {"0", "1", "2", "3", "4", "5", "6", "7", "8", "9"}

DigitOf(c) ==
  CASE c = "0" -> 0 [] c = "1" -> 1 [] c = "2" -> 2 [] c = "3" -> 3
    [] c = "4" -> 4 [] c = "5" -> 5 [] c = "6" -> 6 [] c = "7" -> 7
    [] c = "8" -> 8 [] c = "9" -> 9

RECURSIVE trimStart(_)
trimStart(s) == IF s # << >> /\ Head(s) = " " THEN trimStart(Tail(s)) ELSE s

RECURSIVE digitPrefix(_)
digitPrefix(s) ==
  IF s # << >> /\ IsDigit(Head(s))
  THEN <<Head(s)>> \o digitPrefix(Tail(s))
  ELSE << >>

RECURSIVE mathInt(_, _)
mathInt(z, acc) ==
  IF z = << >> THEN acc ELSE mathInt(Tail(z), 10 * acc + DigitOf(Head(z)))

\* parseInt(s, 10): leading white space is skipped, a sign is taken, then
\* the longest run of decimal digits; NaN when there is no digit.
parseInt(s) ==
  LET t == trimStart(s)
      negative == t # << >> /\ Head(t) = "-"
      u == IF t # << >> /\ Head(t) \in {"+", "-"} THEN Tail(t) ELSE t
      z == digitPrefix(u)
  IN IF z = << >> THEN NaN ELSE Int(negative, mathInt(z, 0))

\* if (process.env.NAME): a variable that is not set is undefined, and
\* undefined and the empty string are falsy.
truthy(name, empty) == name \in DOMAIN env /\ env[name] # empty

\* A port that is the default whatever the environment says.
portFixed == Int(FALSE, DefaultPort)

\* settings.port
port ==
  IF truthy("MOLECULER_TCP_PORT", << >>)
  THEN parseInt(env["MOLECULER_TCP_PORT"])
  ELSE Int(FALSE, DefaultPort)

\* settings.host
host ==
  IF truthy("MOLECULER_TCP_HOST", "")
  THEN env["MOLECULER_TCP_HOST"]
  ELSE LocalAddress

\* A generator that returns the same value again.
uuidRepeating == IF issued = {} THEN {1} ELSE issued

\* uuid(): the value the generator returns.  It never returns a value twice;
\* the ids are opaque tokens that every handler treats alike, so the least
\* unused one stands for the fresh value.
uuid ==
  IF Ids \ issued = {} THEN {}
  ELSE { CHOOSE i \in Ids \ issued : \A j \in Ids \ issued : i <= j }

\* The keys every record starts with.
DefaultKeys == {"type", "remoteAddress"}

\* A record whose metadata lacks the address of the peer.
newConnectionBare(id, a) ==
  [id |-> id, socket |-> a, metadata |-> [k \in {"type"} |-> "tcp"]]

\* The record onServerConnection stores for socket a under id.
newConnection(id, a) ==
  [id |-> id,
   socket |-> a,
   metadata |-> [k \in DefaultKeys |->
                   IF k = "type" THEN "tcp" ELSE RemoteEndpoint(a).remoteAddress]]

\* The notification onServerDrop publishes for the refused transport a.
dropEvent(a) ==
  [topic |-> "tcp.drop",
   remoteAddress |-> RemoteEndpoint(a).remoteAddress,
   localAddress |-> LocalAddress,
   localPort |-> DefaultPort]

\* server.close(): the handle is released, and 'close' is scheduled when no
\* connection is left, also when the server had been closed before.
closeServer(pending) == IF openCount = 0 THEN pending + 1 ELSE pending

\* this.connections[id].socket.end() in a socket handler.
endSocketOf(t, id, why) ==
  LET a == connections[id].socket IN touch(t, a, socketEnd(t[a].state), why)

\* A loop that ends no socket.
endNone(t) == t

\* A loop that destroys the socket of every record.
destroyAll(t) ==
  [a \in 1 .. Len(t) |->
     IF \E id \in DOMAIN connections : connections[id].socket = a
     THEN touch(t, a, socketDestroy(t[a].state), "stop")[a]
     ELSE t[a]]

\* stopServer's loop: socket.end() on the socket of every record.
endAll(t) ==
  [a \in 1 .. Len(t) |->
     IF \E id \in DOMAIN connections : connections[id].socket = a
     THEN touch(t, a, socketEnd(t[a].state), "stop")[a]
     ELSE t[a]]

----------------------------------------------------------------------------
\* An onServerListening that publishes nothing.
onServerListeningSilent ==
  /\ server = "idle"
  /\ server' = "listening"
  /\ startup' = Resolved
  /\ UNCHANGED <<settings, env, connections, transports, issued, pendingClose, bus,
                 stopInfo, closeCalls, reply>>

\* startServer: the bind succeeds and the server emits 'listening'; the
\* promise of startServer resolves and onServerListening publishes.
onServerListening ==
  /\ server = "idle"
  /\ CanEmit
  /\ server' = "listening"
  /\ startup' = Resolved
  /\ emit([topic |-> "tcp.listening"])
  /\ UNCHANGED <<settings, env, connections, transports, issued, pendingClose,
                 stopInfo, closeCalls, reply>>

\* onServerError: publishes the error of the server.
onServerError(error) == emit([topic |-> "tcp.socket.error", error |-> error])

\* A listenError after which the server listens all the same.
listenErrorIgnored ==
  /\ server = "idle"
  /\ CanEmit
  /\ server' = "listening"
  /\ startup' = Rejected(BindFailure)
  /\ onServerError(BindFailure)
  /\ UNCHANGED <<settings, env, connections, transports, issued, pendingClose,
                 stopInfo, closeCalls, reply>>

\* startServer: the bind fails and the server emits 'error'; the promise of
\* startServer rejects with the error and onServerError publishes it.
listenError ==
  /\ server = "idle"
  /\ CanEmit
  /\ server' = "failed"
  /\ startup' = Rejected(BindFailure)
  /\ onServerError(BindFailure)
  /\ UNCHANGED <<settings, env, connections, transports, issued, pendingClose,
                 stopInfo, closeCalls, reply>>

\* The listening server emits 'error'; the promise is settled already.
serverError ==
  /\ server = "listening"
  /\ CanEmit
  /\ onServerError(AcceptFailure)
  /\ UNCHANGED <<server, settings, env, connections, transports, issued, pendingClose,
                 stopInfo, closeCalls, startup, reply>>

\* An onServerConnection that stores the record and tells nobody.
onServerConnectionUnannounced ==
  /\ server = "listening"
  /\ Len(transports) < MaxAccepts
  /\ settings.maxConnections = 0 \/ openCount < settings.maxConnections
  /\ \E id \in uuid :
       LET a == Len(transports) + 1 IN
       /\ issued' = issued \cup {id}
       /\ connections' = [x \in DOMAIN connections \cup {id} |->
                            IF x = id THEN newConnection(id, a) ELSE connections[x]]
       /\ transports' = Append(transports,
                          [fate |-> "admitted", state |-> "open", id |-> id,
                           cause |-> "none", delivered |-> 0, wrote |-> << >>])
  /\ UNCHANGED <<server, settings, env, pendingClose, bus, stopInfo, closeCalls,
                 startup, reply>>

\* The server emits 'connection': the transport is admitted.
onServerConnection ==
  /\ server = "listening"
  /\ Len(transports) < MaxAccepts
  /\ settings.maxConnections = 0 \/ openCount < settings.maxConnections
  /\ CanEmit
  /\ \E id \in uuid :
       LET a == Len(transports) + 1 IN
       /\ issued' = issued \cup {id}
       /\ connections' = [x \in DOMAIN connections \cup {id} |->
                            IF x = id THEN newConnection(id, a) ELSE connections[x]]
       /\ transports' = Append(transports,
                          [fate |-> "admitted", state |-> "open", id |-> id,
                           cause |-> "none", delivered |-> 0, wrote |-> << >>])
       /\ emit([topic |-> "tcp.connection", id |-> id])
  /\ UNCHANGED <<server, settings, env, pendingClose, stopInfo, closeCalls, startup, reply>>

\* The server emits 'drop': maxConnections is reached, the transport is refused.
onServerDrop ==
  /\ server = "listening"
  /\ Len(transports) < MaxAccepts
  /\ settings.maxConnections # 0
  /\ openCount >= settings.maxConnections
  /\ CanEmit
  /\ transports' = Append(transports,
                     [fate |-> "dropped", state |-> "closed", id |-> 0,
                      cause |-> "none", delivered |-> 0, wrote |-> << >>])
  /\ emit(dropEvent(Len(transports) + 1))
  /\ UNCHANGED <<server, settings, env, connections, issued, pendingClose,
                 stopInfo, closeCalls, startup, reply>>
\* The socket emits 'data': the next chunk the transport delivers.  The
\* chunks of one transport are numbered in the order of their delivery.
onSocketData(a) ==
  /\ a \in Admitted
  /\ transports[a].state \in {"open", "ended"}
  /\ CanEmit
  /\ transports' = [transports EXCEPT ![a].delivered = @ + 1]
  /\ LET id == transports[a].id IN
       IF id \in DOMAIN connections
       THEN /\ emit([topic |-> "tcp.socket.data", id |-> id,
                     data |-> transports[a].delivered + 1])
            /\ UNCHANGED reply
       ELSE /\ reply' = NotFoundId(id)
            /\ UNCHANGED bus
  /\ UNCHANGED <<server, settings, env, connections, issued, pendingClose,
                 stopInfo, closeCalls, startup>>

\* The handler of onSocketClose, t being the sockets as the event has left
\* them: ends the socket of the record and publishes; throws
\* CONNECTION_NOT_FOUND when the id is not in the map.
onSocketCloseHandler(t, id) ==
  IF id \in DOMAIN connections
  THEN /\ transports' = endSocketOf(t, id, "close")
       /\ emit([topic |-> "tcp.socket.close", id |-> id])
       /\ UNCHANGED reply
  ELSE /\ transports' = t
       /\ reply' = NotFoundId(id)
       /\ UNCHANGED bus

\* The socket emits 'close': the peer closed, or the socket was destroyed.
onSocketClose(a) ==
  /\ a \in Admitted
  /\ transports[a].state # "closed"
  /\ CanEmit
  /\ onSocketCloseHandler(touch(transports, a, "closed", "close"), transports[a].id)
  /\ pendingClose' =
       IF server = "closing" /\ openCount = 1
       THEN pendingClose + 1 ELSE pendingClose
  /\ UNCHANGED <<server, settings, env, connections, issued, stopInfo, closeCalls,
                 startup>>

\* An onSocketError that ends the socket of every record.
onSocketErrorSpreading(a) ==
  /\ a \in Admitted
  /\ transports[a].state \in {"open", "ended"}
  /\ CanEmit
  /\ transports' = endAll(touch(transports, a, "destroyed", "error"))
  /\ emit([topic |-> "tcp.socket.error", id |-> transports[a].id,
           error |-> "ECONNRESET"])
  /\ UNCHANGED <<server, settings, env, connections, issued, pendingClose,
                 stopInfo, closeCalls, startup, reply>>

\* The handler of onSocketError, t being the sockets as the event has left
\* them: ends the socket of the record and publishes the error; throws
\* CONNECTION_NOT_FOUND when the id is not in the map.
onSocketErrorHandler(t, id) ==
  IF id \in DOMAIN connections
  THEN /\ transports' = endSocketOf(t, id, "error")
       /\ emit([topic |-> "tcp.socket.error", id |-> id, error |-> "ECONNRESET"])
       /\ UNCHANGED reply
  ELSE /\ transports' = t
       /\ reply' = NotFoundId(id)
       /\ UNCHANGED bus

\* The socket emits 'error'; the platform destroys the socket.
onSocketError(a) ==
  /\ a \in Admitted
  /\ transports[a].state \in {"open", "ended"}
  /\ CanEmit
  /\ onSocketErrorHandler(touch(transports, a, "destroyed", "error"), transports[a].id)
  /\ UNCHANGED <<server, settings, env, connections, issued, pendingClose,
                 stopInfo, closeCalls, startup>>

\* The handler of onSocketTimeout: ends the socket of the record and
\* publishes; throws CONNECTION_NOT_FOUND when the id is not in the map.
onSocketTimeoutHandler(id) ==
  IF id \in DOMAIN connections
  THEN /\ transports' = endSocketOf(transports, id, "timeout")
       /\ emit([topic |-> "tcp.socket.timeout", id |-> id])
       /\ UNCHANGED reply
  ELSE /\ reply' = NotFoundId(id)
       /\ UNCHANGED <<transports, bus>>

\* The socket emits 'timeout': it was idle for settings.timeout.
onSocketTimeout(a) ==
  /\ a \in Admitted
  /\ settings.timeout # 0
  /\ transports[a].state \in {"open", "ended"}
  /\ CanEmit
  /\ onSocketTimeoutHandler(transports[a].id)
  /\ UNCHANGED <<server, settings, env, connections, issued, pendingClose,
                 stopInfo, closeCalls, startup>>

\* The server emits 'close'.
onServerClose ==
  /\ pendingClose > 0
  /\ CanEmit
  /\ pendingClose' = pendingClose - 1
  /\ server' = "closed"
  /\ emit([topic |-> "tcp.close"])
  /\ UNCHANGED <<settings, env, connections, transports, issued, stopInfo, closeCalls,
                 startup, reply>>

----------------------------------------------------------------------------
\* The public actions.

\* A socketClose that announces the close itself besides destroying the socket.
socketCloseAnnouncing(id) ==
  /\ CanEmit
  /\ IF id \in DOMAIN connections
     THEN LET a == connections[id].socket IN
          /\ transports' = touch(transports, a, socketDestroy(transports[a].state), "close")
          /\ closeCalls' = [closeCalls EXCEPT ![id] = IF @ < 2 THEN @ + 1 ELSE @]
          /\ emit([topic |-> "tcp.socket.close", id |-> id])
          /\ reply' = Ok
     ELSE /\ reply' = NotFound
          /\ UNCHANGED <<transports, closeCalls, bus>>
  /\ UNCHANGED <<server, settings, env, connections, issued, pendingClose, stopInfo,
                 startup>>

\* A socketClose that ends the socket instead of destroying it.
socketCloseEnding(id) ==
  /\ IF id \in DOMAIN connections
     THEN LET a == connections[id].socket IN
          /\ transports' = touch(transports, a, socketEnd(transports[a].state), "close")
          /\ closeCalls' = [closeCalls EXCEPT ![id] = IF @ < 2 THEN @ + 1 ELSE @]
          /\ reply' = Ok
     ELSE /\ reply' = NotFound
          /\ UNCHANGED <<transports, closeCalls>>
  /\ UNCHANGED <<server, settings, env, connections, issued, pendingClose, bus, stopInfo,
                 startup>>

\* socketClose: destroys the socket of the connection; throws
\* CONNECTION_NOT_FOUND when the id is not in the map.
socketClose(id) ==
  /\ IF id \in DOMAIN connections
     THEN LET a == connections[id].socket IN
          /\ transports' = touch(transports, a, socketDestroy(transports[a].state), "close")
          /\ closeCalls' = [closeCalls EXCEPT ![id] = IF @ < 2 THEN @ + 1 ELSE @]
          /\ reply' = Ok
     ELSE /\ reply' = NotFound
          /\ UNCHANGED <<transports, closeCalls>>
  /\ UNCHANGED <<server, settings, env, connections, issued, pendingClose, bus, stopInfo,
                 startup>>

\* A socketWrite that passes over an id it does not know.
socketWriteLenient(id, data) ==
  /\ IF id \in DOMAIN connections
     THEN LET a == connections[id].socket IN
          /\ written < MaxWrites
          /\ transports' =
               IF transports[a].state = "open"
               THEN [transports EXCEPT ![a].wrote = Append(@, data)]
               ELSE transports
     ELSE UNCHANGED transports
  /\ reply' = Ok
  /\ UNCHANGED <<server, settings, env, connections, issued, pendingClose, bus, stopInfo,
                 closeCalls, startup>>

\* socketWrite: socket.write(data) on the socket of the connection; an open
\* socket queues the data, a socket that was ended or destroyed drops it.
\* Throws CONNECTION_NOT_FOUND when the id is not in the map.
socketWrite(id, data) ==
  /\ IF id \in DOMAIN connections
     THEN LET a == connections[id].socket IN
          /\ written < MaxWrites
          /\ transports' =
               IF transports[a].state = "open"
               THEN [transports EXCEPT ![a].wrote = Append(@, data)]
               ELSE transports
          /\ reply' = Ok
     ELSE /\ reply' = NotFound
          /\ UNCHANGED transports
  /\ UNCHANGED <<server, settings, env, connections, issued, pendingClose, bus, stopInfo,
                 closeCalls, startup>>

\* getMetadata: returns the value stored under the key; throws
\* CONNECTION_NOT_FOUND when the id is not in the map.
\* A getMetadata that hands the value over: the key is gone afterwards.
getMetadataConsuming(id, key) ==
  /\ reply' =
       IF id \in DOMAIN connections
       THEN Returned(lookup(connections[id].metadata, key))
       ELSE NotFound
  /\ connections' =
       IF id \in DOMAIN connections
       THEN [connections EXCEPT ![id].metadata = [k \in DOMAIN @ \ {key} |-> @[k]]]
       ELSE connections
  /\ UNCHANGED <<server, settings, env, transports, issued, pendingClose,
                 bus, stopInfo, closeCalls, startup>>

getMetadata(id, key) ==
  /\ reply' =
       IF id \in DOMAIN connections
       THEN Returned(lookup(connections[id].metadata, key))
       ELSE NotFound
  /\ UNCHANGED <<server, settings, env, connections, transports, issued, pendingClose,
                 bus, stopInfo, closeCalls, startup>>

\* A setMetadata that publishes the value along with the key.
setMetadataLeaking(id, key, value) ==
  /\ CanEmit
  /\ IF id \in DOMAIN connections
     THEN /\ connections' =
               [connections EXCEPT ![id].metadata =
                  [k \in DOMAIN @ \cup {key} |-> IF k = key THEN value ELSE @[k]]]
          /\ emit([topic |-> "tcp.socket.metadata.set", id |-> id, key |-> key,
                   value |-> value])
          /\ reply' = Ok
     ELSE /\ reply' = NotFound
          /\ UNCHANGED <<connections, bus>>
  /\ UNCHANGED <<server, settings, env, transports, issued, pendingClose, stopInfo,
                 closeCalls, startup>>

\* A setMetadata that publishes without storing the value.
setMetadataForgetful(id, key, value) ==
  /\ CanEmit
  /\ IF id \in DOMAIN connections
     THEN /\ emit([topic |-> "tcp.socket.metadata.set", id |-> id, key |-> key])
          /\ reply' = Ok
          /\ UNCHANGED connections
     ELSE /\ reply' = NotFound
          /\ UNCHANGED <<connections, bus>>
  /\ UNCHANGED <<server, settings, env, transports, issued, pendingClose, stopInfo,
                 closeCalls, startup>>

\* setMetadata: stores the value under the key and publishes {id, key}.
\* A setMetadata that keeps one metadata object for all connections.
setMetadataShared(id, key, value) ==
  /\ CanEmit
  /\ IF id \in DOMAIN connections
     THEN /\ connections' =
               [x \in DOMAIN connections |->
                  [connections[x] EXCEPT !.metadata =
                     [k \in DOMAIN @ \cup {key} |-> IF k = key THEN value ELSE @[k]]]]
          /\ emit([topic |-> "tcp.socket.metadata.set", id |-> id, key |-> key])
          /\ reply' = Ok
     ELSE /\ reply' = NotFound
          /\ UNCHANGED <<connections, bus>>
  /\ UNCHANGED <<server, settings, env, transports, issued, pendingClose, stopInfo,
                 closeCalls, startup>>

setMetadata(id, key, value) ==
  /\ CanEmit
  /\ IF id \in DOMAIN connections
     THEN /\ connections' =
               [connections EXCEPT ![id].metadata =
                  [k \in DOMAIN @ \cup {key} |-> IF k = key THEN value ELSE @[k]]]
          /\ emit([topic |-> "tcp.socket.metadata.set", id |-> id, key |-> key])
          /\ reply' = Ok
     ELSE /\ reply' = NotFound
          /\ UNCHANGED <<connections, bus>>
  /\ UNCHANGED <<server, settings, env, transports, issued, pendingClose, stopInfo,
                 closeCalls, startup>>

\* deleteMetadata: removes the key and publishes {id, key}.
\* A deleteMetadata that publishes its notification before it looks the id up.
deleteMetadataAnnouncing(id, key) ==
  /\ CanEmit
  /\ emit([topic |-> "tcp.socket.metadata.delete", id |-> id, key |-> key])
  /\ IF id \in DOMAIN connections
     THEN /\ connections' =
               [connections EXCEPT ![id].metadata =
                  [k \in DOMAIN @ \ {key} |-> @[k]]]
          /\ reply' = Ok
     ELSE /\ reply' = NotFound
          /\ UNCHANGED connections
  /\ UNCHANGED <<server, settings, env, transports, issued, pendingClose, stopInfo,
                 closeCalls, startup>>

deleteMetadata(id, key) ==
  /\ CanEmit
  /\ IF id \in DOMAIN connections
     THEN /\ connections' =
               [connections EXCEPT ![id].metadata =
                  [k \in DOMAIN @ \ {key} |-> @[k]]]
          /\ emit([topic |-> "tcp.socket.metadata.delete", id |-> id, key |-> key])
          /\ reply' = Ok
     ELSE /\ reply' = NotFound
          /\ UNCHANGED <<connections, bus>>
  /\ UNCHANGED <<server, settings, env, transports, issued, pendingClose, stopInfo,
                 closeCalls, startup>>

\* A mergeMetadata that takes the first entry only.
mergeMetadataFirst(id, data) ==
  /\ CanEmit
  /\ IF id \in DOMAIN connections
     THEN /\ connections' =
               [connections EXCEPT ![id].metadata =
                  [k \in DOMAIN @ \cup {data[1].key} |->
                     IF k = data[1].key THEN data[1].value ELSE @[k]]]
          /\ emit([topic |-> "tcp.socket.metadata.set", id |-> id, key |-> data[1].key])
          /\ reply' = Ok
     ELSE /\ reply' = NotFound
          /\ UNCHANGED <<connections, bus>>
  /\ UNCHANGED <<server, settings, env, transports, issued, pendingClose, stopInfo,
                 closeCalls, startup>>

\* mergeMetadata: stores every entry of data and publishes {id, key} for each
\* of them, in the order of the entries; throws when the id is not in the map.
mergeMetadata(id, data) ==
  /\ Len(bus) + Len(data) <= MaxBus
  /\ IF id \in DOMAIN connections
     THEN LET keys == { data[i].key : i \in 1 .. Len(data) }
              valueOf(k) == (CHOOSE e \in { data[i] : i \in 1 .. Len(data) } : e.key = k).value
          IN
          /\ connections' =
               [connections EXCEPT ![id].metadata =
                  [k \in DOMAIN @ \cup keys |-> IF k \in keys THEN valueOf(k) ELSE @[k]]]
          /\ bus' = bus \o [i \in 1 .. Len(data) |->
                              [topic |-> "tcp.socket.metadata.set", id |-> id,
                               key |-> data[i].key]]
          /\ reply' = Ok
     ELSE /\ reply' = NotFound
          /\ UNCHANGED <<connections, bus>>
  /\ UNCHANGED <<server, settings, env, transports, issued, pendingClose, stopInfo,
                 closeCalls, startup>>

\* A getAllMetadata that returns the keys the callers have set, without the
\* keys the record started with.
getAllMetadataOwn(id) ==
  /\ reply' =
       IF id \in DOMAIN connections
       THEN ReturnedAll([k \in DOMAIN connections[id].metadata \ DefaultKeys |->
                          connections[id].metadata[k]])
       ELSE NotFound
  /\ UNCHANGED <<server, settings, env, connections, transports, issued, pendingClose,
                 bus, stopInfo, closeCalls, startup>>

\* getAllMetadata: returns the whole metadata of the connection; throws when
\* the id is not in the map.
getAllMetadata(id) ==
  /\ reply' =
       IF id \in DOMAIN connections
       THEN ReturnedAll(connections[id].metadata)
       ELSE NotFound
  /\ UNCHANGED <<server, settings, env, connections, transports, issued, pendingClose,
                 bus, stopInfo, closeCalls, startup>>

----------------------------------------------------------------------------
\* A stopped() that leaves the listener accepting.
stoppedAccepting ==
  /\ server = "listening"
  /\ stopInfo = NotStopped
  /\ stopInfo' = [open |-> openCount, at |-> Len(bus)]
  /\ transports' = endAll(transports)
  /\ UNCHANGED <<server, settings, env, connections, issued, pendingClose, bus,
                 closeCalls, startup, reply>>

\* stopped(): server.close(), then stopServer: socket.end() on every record
\* and server.close() once more; it then waits for the server's 'close'.
stopped ==
  /\ server = "listening"
  /\ stopInfo' = [open |-> openCount, at |-> Len(bus)]
  /\ server' = "closing"
  /\ transports' = endAll(transports)
  /\ pendingClose' = closeServer(closeServer(pendingClose))
  /\ UNCHANGED <<settings, env, connections, issued, bus, closeCalls, startup, reply>>

Next ==
  \/ onServerListening
  \/ listenError
  \/ onServerConnection
  \/ onServerDrop
  \/ \E a \in 1 .. MaxAccepts : onSocketData(a)
  \/ \E a \in 1 .. MaxAccepts : onSocketClose(a)
  \/ \E a \in 1 .. MaxAccepts : onSocketError(a)
  \/ \E a \in 1 .. MaxAccepts : onSocketTimeout(a)
  \/ onServerClose
  \/ \E id \in Ids : socketClose(id)
  \/ \E id \in Ids, key \in MetaKeys, value \in MetaValues : setMetadata(id, key, value)
  \/ \E id \in Ids, key \in MetaKeys : deleteMetadata(id, key)
  \/ stopped

Spec == Init /\ [][Next]_vars

\* The platform's scheduling: a socket that was ended or destroyed emits
\* its 'close' once the transport has confirmed the teardown, and a 'close'
\* the server has scheduled is emitted.
teardown(a) ==
  /\ a \in Admitted
  /\ transports[a].state \in {"ended", "destroyed"}
  /\ onSocketClose(a)

\* The listener and its connections from start to stop; the metadata of the
\* connections takes no part in it.
StopNext ==
  \/ onServerListening
  \/ serverError
  \/ onServerConnection
  \/ onServerDrop
  \/ \E a \in 1 .. MaxAccepts : onSocketData(a)
  \/ \E a \in 1 .. MaxAccepts : onSocketClose(a)
  \/ \E a \in 1 .. MaxAccepts : onSocketError(a)
  \/ \E a \in 1 .. MaxAccepts : onSocketTimeout(a)
  \/ onServerClose
  \/ \E id \in Ids : socketClose(id)
  \/ stopped

FairSpec ==
  /\ Init
  /\ [][StopNext]_vars
  /\ \A a \in 1 .. MaxAccepts : WF_vars(teardown(a))
  /\ WF_vars(onServerClose)

\* The service as its callers and the listener see it: the public actions on
\* connections that come and go, without the transports' data and faults.
ApiNext ==
  \/ onServerListening
  \/ onServerConnection
  \/ \E a \in 1 .. MaxAccepts : onSocketClose(a)
  \/ \E id \in Ids : socketClose(id)
  \/ \E id \in Ids, data \in WriteData : socketWrite(id, data)
  \/ \E id \in Ids, key \in MetaKeys \cup MergeKeys : getMetadata(id, key)
  \/ \E id \in Ids, key \in MetaKeys, value \in MetaValues : setMetadata(id, key, value)
  \/ \E id \in Ids, key \in MetaKeys : deleteMetadata(id, key)
  \/ \E id \in Ids, data \in MergeData : mergeMetadata(id, data)
  \/ \E id \in Ids : getAllMetadata(id)

\* The service with the settings of the schema: neither maxConnections nor
\* timeout is set.
ApiInit ==
  /\ Init
  /\ settings = [maxConnections |-> 0, timeout |-> 0]

ApiSpec == ApiInit /\ [][ApiNext]_vars

\* The handlers of the socket events are actions of the service: besides the
\* sockets, the service that mixes the gateway in can call them, with any id.
callOnSocketClose(id) ==
  /\ CanEmit
  /\ onSocketCloseHandler(transports, id)
  /\ UNCHANGED <<server, settings, env, connections, issued, pendingClose, stopInfo,
                 closeCalls, startup>>

callOnSocketError(id) ==
  /\ CanEmit
  /\ onSocketErrorHandler(transports, id)
  /\ UNCHANGED <<server, settings, env, connections, issued, pendingClose, stopInfo,
                 closeCalls, startup>>

callOnSocketTimeout(id) ==
  /\ CanEmit
  /\ onSocketTimeoutHandler(id)
  /\ UNCHANGED <<server, settings, env, connections, issued, pendingClose, stopInfo,
                 closeCalls, startup>>

\* The handlers of the terminal events, called with ids the registry holds
\* and with ids it does not hold.
HandlerNext ==
  \/ onServerListening
  \/ onServerConnection
  \/ \E id \in Ids : callOnSocketClose(id)
  \/ \E id \in Ids : callOnSocketError(id)
  \/ \E id \in Ids : callOnSocketTimeout(id)

HandlerSpec == ApiInit /\ [][HandlerNext]_vars

----------------------------------------------------------------------------
\* The settings as their readers see them while the environment changes.

\* process.env[name] = value
setEnv(name, value) ==
  /\ env' = [n \in DOMAIN env \cup {name} |-> IF n = name THEN value ELSE env[n]]
  /\ UNCHANGED <<server, settings, connections, transports, issued, pendingClose,
                 bus, stopInfo, closeCalls, startup, reply>>

\* delete process.env[name]
deleteEnv(name) ==
  /\ env' = [n \in DOMAIN env \ {name} |-> env[n]]
  /\ UNCHANGED <<server, settings, connections, transports, issued, pendingClose,
                 bus, stopInfo, closeCalls, startup, reply>>

\* a read of settings.port
readPort ==
  /\ reply' = [result |-> "ok", port |-> port]
  /\ UNCHANGED <<server, settings, env, connections, transports, issued,
                 pendingClose, bus, stopInfo, closeCalls, startup>>

\* a read of settings.host
readHost ==
  /\ reply' = [result |-> "ok", host |-> host]
  /\ UNCHANGED <<server, settings, env, connections, transports, issued,
                 pendingClose, bus, stopInfo, closeCalls, startup>>

SettingsNext ==
  \/ \E value \in PortValues : setEnv("MOLECULER_TCP_PORT", value)
  \/ \E value \in HostValues : setEnv("MOLECULER_TCP_HOST", value)
  \/ \E name \in {"MOLECULER_TCP_PORT", "MOLECULER_TCP_HOST"} : deleteEnv(name)
  \/ readPort
  \/ readHost

SettingsSpec == ApiInit /\ [][SettingsNext]_vars

----------------------------------------------------------------------------
\* Notifications of one connection.

TerminalTopics == {"tcp.socket.close", "tcp.socket.error", "tcp.socket.timeout"}

\* positions of the notifications that carry id
NotesOf(id) == { i \in 1 .. Len(bus) : "id" \in DOMAIN bus[i] /\ bus[i].id = id }

\* positions of the terminal notifications that carry id
Terminal(id) == { i \in NotesOf(id) : bus[i].topic \in TerminalTopics }

\* positions of the notifications published on a topic
OnTopic(topic) == { i \in 1 .. Len(bus) : bus[i].topic = topic }

\* the transports that were admitted under id
SocketsOf(id) == { a \in Admitted : transports[a].id = id }

\* the connection of id has reached Closed: its transport has closed
Closed(id) == \E a \in SocketsOf(id) : transports[a].state = "closed"

\* no error and no timeout was reported for id
NoFault(id) == \A i \in Terminal(id) : bus[i].topic = "tcp.socket.close"

\* the terminal notification that matches a first trigger
KindOf(cause) ==
  CASE cause = "error" -> "tcp.socket.error"
    [] cause = "timeout" -> "tcp.socket.timeout"
    [] OTHER -> "tcp.socket.close"

----------------------------------------------------------------------------
\* C1: the registry holds an id if and only if a connection was admitted
\* under it and has not reached Closed; an id whose transport has closed is
\* no longer in the registry.
C1_RegistryIffNotClosed ==
  \A id \in Ids :
    id \in DOMAIN connections
      <=> \E a \in SocketsOf(id) : transports[a].state # "closed"

\* C2: at most one terminal notification (closed, errored or timed-out) is
\* ever published for one connection id.
C2_AtMostOneTerminal ==
  \A id \in Ids : Cardinality(Terminal(id)) <= 1

\* C3: the first trigger that finds the connection open decides its end:
\* every terminal notification published for the connection is of the kind
\* of that first trigger, later triggers publish nothing.
C3_FirstTriggerWins ==
  \A a \in Admitted :
    \A i \in Terminal(transports[a].id) :
      bus[i].topic = KindOf(transports[a].cause)

\* after two close commands on a connection that reported no error and no
\* timeout: at most one terminal notification, exactly one once the
\* transport has closed
CountAfterTwoCloses ==
  \A id \in DOMAIN connections :
    (closeCalls[id] = 2 /\ NoFault(id)) =>
      /\ Cardinality(Terminal(id)) <= 1
      /\ Closed(id) => Cardinality(Terminal(id)) = 1

C5_SilentAfterRemoval ==
  [][\A id \in Ids : Closed(id) => NotesOf(id)' = NotesOf(id)]_vars

\* C6: the ids of any two admitted connections differ, closed connections
\* included, and a record keeps the id it was stored under.
C6_UniqueIds ==
  /\ \A a, b \in Admitted : a # b => transports[a].id # transports[b].id
  /\ \A id \in DOMAIN connections :
       /\ connections[id].id = id
       /\ connections[id].socket \in SocketsOf(id)

\* reached: a connection admitted after an earlier one has closed
C6_Witness ==
  \E a, b \in Admitted :
    /\ a < b
    /\ transports[a].state = "closed"
    /\ transports[b].state = "open"
    /\ transports[b].id \in DOMAIN connections

\* the notification n carries the local and the remote endpoint of transport a
CarriesEndpoints(n, a) ==
  /\ {"localAddress", "localPort", "remoteAddress", "remotePort"} \subseteq DOMAIN n
  /\ n.localAddress = LocalAddress
  /\ n.localPort = DefaultPort
  /\ n.remoteAddress = RemoteEndpoint(a).remoteAddress
  /\ n.remotePort = RemoteEndpoint(a).remotePort

\* C7: a transport refused because maxConnections connections are open is
\* never stored in the registry, and exactly one drop notification with its
\* local and remote endpoints is published for it.
C7_DropPerRejected ==
  /\ Cardinality(OnTopic("tcp.drop")) = Cardinality(Dropped)
  /\ \A a \in Dropped :
       /\ \A id \in DOMAIN connections : connections[id].socket # a
       /\ \E i \in OnTopic("tcp.drop") : CarriesEndpoints(bus[i], a)

\* C8: the registry never holds more than maxConnections entries.
C8_RegistryBounded ==
  settings.maxConnections # 0 =>
    Cardinality(DOMAIN connections) <= settings.maxConnections

\* the position of the first listener close notification
FirstClose == CHOOSE i \in OnTopic("tcp.close") : \A j \in OnTopic("tcp.close") : i <= j

\* positions of all terminal notifications
AllTerminal == { i \in 1 .. Len(bus) : bus[i].topic \in TerminalTopics }

\* C9: stop() with M connections open publishes exactly M terminal
\* notifications, one per connection, all of them before the listener close
\* notification.
C9_StopDrains ==
  server = "closed" =>
    LET after == { i \in AllTerminal : i > stopInfo.at } IN
    /\ Cardinality(after) = stopInfo.open
    /\ Cardinality({ bus[i].id : i \in after }) = stopInfo.open
    /\ \A i \in after : i < FirstClose

\* C10: a stop() publishes the listener close notification once, never twice.
C10_OneListenerClose ==
  /\ Cardinality(OnTopic("tcp.close")) <= 1
  /\ server = "closed" => Cardinality(OnTopic("tcp.close")) >= 1

\* every admitted transport has closed
AllClosed == \A a \in Admitted : transports[a].state = "closed"

\* C11: once stop() has been invoked, and every transport that was asked to
\* end confirms its teardown, the listener reaches Closed with its close
\* notification published (as far as the bound on the published notifications
\* lets the run go), and it reaches Closed, which is when stop() returns, only
\* after every connection has reached Closed.
C11_StopCompletes ==
  /\ [](server = "closed" => AllClosed /\ OnTopic("tcp.close") # {})
  /\ (server = "closing") ~> (server = "closed" \/ ~CanEmit)

\* reached: a stop() that found connections open has completed
C11_Witness ==
  /\ server = "closed"
  /\ stopInfo.open > 0
  /\ CanEmit

\* C12: once the timed-out notification of a connection has been published,
\* the connection is done: no data notification for its id follows it.
C12_NoDataAfterTimeout ==
  \A id \in Ids :
    \A i, j \in NotesOf(id) :
      (i < j /\ bus[i].topic = "tcp.socket.timeout") =>
        bus[j].topic # "tcp.socket.data"

\* positions of the data notifications that carry id
DataOf(id) == { i \in NotesOf(id) : bus[i].topic = "tcp.socket.data" }

\* every chunk the transports of id have delivered so far is published
AllDataPublished(id) ==
  \A a \in SocketsOf(id) :
    { bus[i].data : i \in DataOf(id) } = 1 .. transports[a].delivered

\* C13: the data notifications of one connection are published in the order
\* in which its transport delivered the chunks; every chunk has its data
\* notification on the bus as soon as it is delivered, and a notification is
\* only ever added behind those already published, so the terminal
\* notification of a connection comes after the data notification of every
\* chunk delivered before the terminal event.
C13_DataInOrder ==
  /\ [](\A id \in Ids :
          /\ \A i, j \in DataOf(id) : i < j => bus[i].data < bus[j].data
          /\ AllDataPublished(id))
  /\ [][/\ Len(bus') >= Len(bus)
        /\ SubSeq(bus', 1, Len(bus)) = bus]_vars

\* reached: two chunks of one connection published, then its terminal
\* notification
C13_Witness ==
  \E id \in Ids :
    \E i, j \in DataOf(id), k \in Terminal(id) : i < j /\ j < k

\* a step of one of the commands, called with id
Command(id) ==
  \/ \E data \in WriteData : socketWrite(id, data)
  \/ socketClose(id)
  \/ \E key \in MetaKeys \cup MergeKeys : getMetadata(id, key)
  \/ \E key \in MetaKeys, value \in MetaValues : setMetadata(id, key, value)
  \/ \E key \in MetaKeys : deleteMetadata(id, key)
  \/ \E data \in MergeData : mergeMetadata(id, data)

Stored(id, key) == lookup(connections[id].metadata, key)

\* a step that mutates key on id
Mutation(id, key) ==
  \/ \E value \in MetaValues : setMetadata(id, key, value)
  \/ deleteMetadata(id, key)
  \/ \E data \in MergeData :
       /\ mergeMetadata(id, data)
       /\ \E i \in 1 .. Len(data) : data[i].key = key

\* positions of the notifications on a topic that carry id and key
KeyNotes(topic, id, key) ==
  { i \in NotesOf(id) : bus[i].topic = topic /\ bus[i].key = key }

C16_OneNotePerMutation ==
  [][\A id \in DOMAIN connections, k \in MetaKeys :
       /\ \A v \in MetaValues :
            setMetadata(id, k, v) =>
              bus' = Append(bus, [topic |-> "tcp.socket.metadata.set",
                                  id |-> id, key |-> k])
       /\ deleteMetadata(id, k) =>
            bus' = Append(bus, [topic |-> "tcp.socket.metadata.delete",
                                id |-> id, key |-> k])]_vars

\* reached: a key of a connection was set and then deleted, both with success
C16_Witness ==
  \E id \in DOMAIN connections, k \in MetaKeys :
    /\ \E i \in KeyNotes("tcp.socket.metadata.set", id, k),
          j \in KeyNotes("tcp.socket.metadata.delete", id, k) : i < j
    /\ reply = Ok

\* the keys of the entries of data
KeysOf(data) == { data[i].key : i \in 1 .. Len(data) }

\* the keys a metadata object of the model can hold
AllKeys == DefaultKeys \cup MetaKeys \cup MergeKeys

\* C17: mergeMetadata(id, data) on a connection of the registry leaves under
\* every key of data the value data gives it, whatever was there before,
\* leaves every other key as it was, and publishes one metadata-set
\* notification {id, key} for each key of data and nothing else; getMetadata
\* returns what is under the key, so the merged values are retrievable.
C17_MergeSetsEveryKey ==
  [][\A id \in DOMAIN connections :
       /\ \A data \in MergeData :
            mergeMetadata(id, data) =>
              /\ \A i \in 1 .. Len(data) : Stored(id, data[i].key)' = data[i].value
              /\ \A k \in AllKeys \ KeysOf(data) : Stored(id, k)' = Stored(id, k)
              /\ Len(bus') = Len(bus) + Cardinality(KeysOf(data))
              /\ SubSeq(bus', 1, Len(bus)) = bus
              /\ \A k \in KeysOf(data) :
                   \E j \in Len(bus) + 1 .. Len(bus') :
                     bus'[j] = [topic |-> "tcp.socket.metadata.set",
                                id |-> id, key |-> k]
       /\ \A k \in MergeKeys :
            getMetadata(id, k) => reply' = Returned(Stored(id, k))]_vars

\* reached: a merge of two keys has overwritten a key that was set before,
\* and getMetadata has returned a merged value
C17_Witness ==
  \E id \in DOMAIN connections :
    /\ Cardinality(KeyNotes("tcp.socket.metadata.set", id, "foo")) = 2
    /\ Cardinality(KeyNotes("tcp.socket.metadata.set", id, "lang")) = 1
    /\ Stored(id, "foo") = "qux"
    /\ reply = Returned("qux")

\* the last notification about key on id is a metadata-set notification
SetLast(id, key) ==
  \E i \in KeyNotes("tcp.socket.metadata.set", id, key) :
    \A j \in KeyNotes("tcp.socket.metadata.delete", id, key) : j < i

HasListened == server \in {"listening", "closing", "closed"}

\* C19: the promise of the start resolves when the listener is listening,
\* never before; a start that has succeeded has published exactly one
\* listening notification, a start that has not has published none; and
\* every connection-opened notification comes after the listening one.
C19_ListeningOnce ==
  /\ [](/\ startup = Resolved <=> HasListened
        /\ Cardinality(OnTopic("tcp.listening")) =
             (IF startup = Resolved THEN 1 ELSE 0)
        /\ \A i \in OnTopic("tcp.connection") :
             \E j \in OnTopic("tcp.listening") : j < i)
  /\ [][startup' # startup =>
          /\ startup = Pending
          /\ startup' = Resolved => server' = "listening"]_vars

\* reached: the start has resolved and a connection has been opened
C19_Witness ==
  /\ startup = Resolved
  /\ OnTopic("tcp.connection") # {}
  /\ OnTopic("tcp.listening") = {1}

\* C20: when the bind fails, the promise of the start rejects with the error
\* of the listen call, which carries the code of the operating system; from
\* then on the listener is not listening and never will be, no listening
\* notification is published and no connection is admitted.
C20_BindFailureAborts ==
  /\ [](startup.state = "rejected" =>
          /\ startup.error.syscall = "listen"
          /\ startup.error.code = "EADDRINUSE"
          /\ server = "failed"
          /\ OnTopic("tcp.listening") = {}
          /\ OnTopic("tcp.connection") = {}
          /\ Admitted = {}
          /\ connections = << >>)
  /\ [][startup.state = "rejected" => startup' = startup]_vars

\* reached: the bind has failed and the error was published
C20_Witness ==
  /\ startup = Rejected(BindFailure)
  /\ \E i \in OnTopic("tcp.socket.error") : bus[i].error = BindFailure

PerConnectionTopics ==
  {"tcp.socket.data", "tcp.socket.close", "tcp.socket.error",
   "tcp.socket.timeout", "tcp.socket.metadata.set", "tcp.socket.metadata.delete"}

\* C22: every notification on a topic of the connections carries an id, and
\* the id is that of an admitted connection; what the listener reports is
\* never published on one of these topics.
C22_NotesCarryId ==
  \A i \in 1 .. Len(bus) :
    bus[i].topic \in PerConnectionTopics =>
      /\ "id" \in DOMAIN bus[i]
      /\ \E a \in Admitted : transports[a].id = bus[i].id

\* positions of the connection-opened notifications that carry id
OpenedNotes(id) == { i \in OnTopic("tcp.connection") : bus[i].id = id }

\* C23: for every admitted connection exactly one connection-opened
\* notification is published, and none for anything else; the id it carries
\* is the key of the record of the connection, and the step that publishes
\* it is the step that has put the record into the registry, so the record
\* is there when the notification is out.
C23_OpenedOncePerAdmitted ==
  /\ [](/\ \A a \in Admitted : Cardinality(OpenedNotes(transports[a].id)) = 1
        /\ \A i \in OnTopic("tcp.connection") :
             \E a \in Admitted : transports[a].id = bus[i].id)
  /\ [][(Len(bus') > Len(bus) /\ bus'[Len(bus')].topic = "tcp.connection") =>
          LET id == bus'[Len(bus')].id IN
          /\ bus' = Append(bus, [topic |-> "tcp.connection", id |-> id])
          /\ id \notin DOMAIN connections
          /\ id \in DOMAIN connections'
          /\ connections'[id].id = id
          /\ connections'[id].socket = Len(transports')
          /\ transports'[Len(transports')].id = id]_vars

\* reached: two connections admitted, each with its notification
C23_Witness ==
  /\ Cardinality(Admitted) = 2
  /\ Cardinality(OnTopic("tcp.connection")) = 2
  /\ \A i \in OnTopic("tcp.connection") : bus[i].id \in DOMAIN connections

\* settings.emitData as a handler would read it: an unset setting is falsy.
emitData == "emitData" \in DOMAIN settings /\ settings.emitData

\* C24: a data notification is published only when settings.emitData is
\* true; with emitData false or unset there is no data notification.
C24_DataOnlyIfEmitData ==
  OnTopic("tcp.socket.data") # {} => emitData

\* the close command was called on the connection of transport a, and the
\* first that happened to the open socket was a close
ClosedByCommand(a) ==
  /\ transports[a].cause = "close"
  /\ closeCalls[transports[a].id] >= 1

\* the state of the socket of the a-th transport, once it was admitted
StateOf(a) == IF a \in Admitted THEN transports[a].state ELSE "none"

\* C25: a close command on a connection whose socket is open returns with
\* the socket destroyed, so the connection is no longer open; from then on
\* the only terminal notification of the connection is the closed one, none
\* while the socket is being torn down and one once it has closed; and the
\* destroyed socket does close (as far as the bound on the published
\* notifications lets the run go).
C25_CloseCommand ==
  /\ [][\A id \in DOMAIN connections :
          (transports[connections[id].socket].state = "open" /\ socketClose(id)) =>
            /\ reply' = Ok
            /\ transports'[connections[id].socket].state = "destroyed"]_vars
  /\ [](\A a \in Admitted :
          ClosedByCommand(a) =>
            /\ transports[a].state \in {"destroyed", "closed"}
            /\ \A i \in Terminal(transports[a].id) : bus[i].topic = "tcp.socket.close"
            /\ Cardinality(Terminal(transports[a].id)) =
                 (IF transports[a].state = "closed" THEN 1 ELSE 0))
  /\ \A a \in 1 .. MaxAccepts :
       (StateOf(a) = "destroyed") ~> (StateOf(a) = "closed" \/ ~CanEmit)

\* reached: the close command has returned for an open connection, whose
\* socket is destroyed and has not closed yet
C25_Witness ==
  \E a \in Admitted :
    /\ ClosedByCommand(a)
    /\ closeCalls[transports[a].id] = 1
    /\ transports[a].state = "destroyed"
    /\ Terminal(transports[a].id) = {}
    /\ reply = Ok

\* C26: a socketWrite(id, data) that returns with success has queued data,
\* once, behind what the socket of the connection had queued before, has
\* touched no other socket, and has waited for nothing: no event of the
\* transport is part of the step.
C26_WriteEnqueuesOnce ==
  [][\A id \in DOMAIN connections, data \in WriteData :
       (socketWrite(id, data) /\ reply' = Ok) =>
         LET a == connections[id].socket IN
         /\ transports'[a].wrote = Append(transports[a].wrote, data)
         /\ transports'[a].state = transports[a].state
         /\ \A b \in 1 .. Len(transports) : b # a => transports'[b] = transports[b]
         /\ UNCHANGED <<connections, bus, server>>]_vars

\* a step of one of the commands that can change the service, called with id
Changing(id) ==
  \/ socketClose(id)
  \/ \E key \in MetaKeys, value \in MetaValues : setMetadata(id, key, value)
  \/ \E key \in MetaKeys : deleteMetadata(id, key)

\* C27: an error of the socket of one connection is reported by one errored
\* notification with the id of that connection and tears down that socket
\* only: the registry with every record and its metadata, every other
\* socket and the listener stay as they were.  A command on a connection of
\* the registry succeeds whatever has happened to the other connections.
C27_ErrorIsolated ==
  [][/\ \A a \in Admitted :
          onSocketError(a) =>
            /\ bus' = Append(bus, [topic |-> "tcp.socket.error",
                                   id |-> transports[a].id, error |-> "ECONNRESET"])
            /\ transports'[a].state = "destroyed"
            /\ \A b \in 1 .. Len(transports) : b # a => transports'[b] = transports[b]
            /\ UNCHANGED <<connections, server, pendingClose>>
     /\ reply' # Ok => \A id \in DOMAIN connections : ~Changing(id)]_vars

\* reached: of two connections one has failed, and a command on the other,
\* whose socket is open, has succeeded afterwards
C27_Witness ==
  \E a, b \in Admitted :
    /\ transports[a].cause = "error"
    /\ transports[b].state = "open"
    /\ reply = Ok
    /\ \E i \in Terminal(transports[a].id), k \in MetaKeys :
         \E j \in KeyNotes("tcp.socket.metadata.set", transports[b].id, k) : i < j

\* how far a socket is on its way: open, being torn down, closed
Rank(s) == CASE s = "open" -> 0 [] s = "closed" -> 2 [] OTHER -> 1

TerminalCall(id) ==
  \/ callOnSocketClose(id)
  \/ callOnSocketError(id)
  \/ callOnSocketTimeout(id)

Untouched(id) ==
  \A i \in NotesOf(id) :
    bus[i].topic \notin {"tcp.socket.metadata.set", "tcp.socket.metadata.delete"}

\* C30: the metadata of a record that enters the registry has the two
\* entries type, which is "tcp", and remoteAddress, which is the remote
\* address of its socket, and no other; it stays so until a command acts
\* on it.
C30_DefaultMetadata ==
  /\ [](\A id \in DOMAIN connections :
          Untouched(id) =>
            connections[id].metadata =
              [type |-> "tcp",
               remoteAddress |-> RemoteEndpoint(connections[id].socket).remoteAddress])
  /\ [][\A id \in DOMAIN connections' \ DOMAIN connections :
          /\ DOMAIN connections'[id].metadata = DefaultKeys
          /\ connections'[id].metadata.type = "tcp"
          /\ connections'[id].metadata.remoteAddress =
               RemoteEndpoint(Len(transports')).remoteAddress]_vars

\* reached: two connections from two hosts, no command has acted on either
C30_Witness ==
  /\ Cardinality(DOMAIN connections) = 2
  /\ \A id \in DOMAIN connections : Untouched(id)
  /\ \E x, y \in DOMAIN connections :
       connections[x].metadata.remoteAddress # connections[y].metadata.remoteAddress

\* the environment variable is set, to whatever value
IsSet(name) == name \in DOMAIN env

IsGiven(name, empty) == name \in DOMAIN env /\ env[name] # empty

Stopping == stopInfo # NotStopped

\* C32: once stop() has been invoked the listener takes no transport any
\* more: no record is added to the registry, and every connection-opened
\* notification on the bus was published before the stop.
C32_NoAdmissionAfterStop ==
  /\ [](/\ Stopping <=> server \in {"closing", "closed"}
        /\ \A i \in OnTopic("tcp.connection") : i <= stopInfo.at)
  /\ [][Stopping =>
          /\ DOMAIN connections' = DOMAIN connections
          /\ Len(transports') = Len(transports)]_vars

\* reached: a stop with a connection open has closed the listener while
\* another transport could still have been offered and announced
C32_Witness ==
  /\ server = "closed"
  /\ stopInfo.open = 1
  /\ Len(transports) < MaxAccepts
  /\ CanEmit

\* C33: stop() ends the socket of every connection that is open when it is
\* called, gracefully: each of them is half-closed by the step, none is
\* destroyed by it, and a socket that was not open is left as it was.
C33_StopEndsGracefully ==
  [][stopped =>
       \A a \in Admitted :
         IF transports[a].state = "open"
         THEN transports'[a].state = "ended" /\ transports'[a].cause = "stop"
         ELSE transports'[a] = transports[a]]_vars

\* reached: stop() has found two connections open and has ended both
C33_Witness ==
  /\ server = "closing"
  /\ stopInfo.open = 2
  /\ \A a \in Admitted : transports[a].cause = "stop" /\ transports[a].state = "ended"

\* a termination trigger (close command, transport close, transport error,
\* idle timeout or stop) has occurred for the connection of the a-th transport
Triggered(a) == a \in Admitted /\ transports[a].cause # "none"

\* the connection of the a-th transport is over: its transport has closed,
\* its id has left the registry and a terminal notification carries its id
Over(a) ==
  /\ StateOf(a) = "closed"
  /\ transports[a].id \notin DOMAIN connections
  /\ Terminal(transports[a].id) # {}

\* C34: every connection for which a termination trigger has occurred
\* eventually reaches Closed, is removed from the registry and has its
\* terminal notification published, given that a transport that was ended
\* or destroyed does close (as far as the bound on the published
\* notifications lets the run go).
C34_TriggeredIsOver ==
  \A a \in 1 .. MaxAccepts : Triggered(a) ~> (Over(a) \/ ~CanEmit)

\* a step of one of the commands write, close, getMetadata, setMetadata and
\* deleteMetadata, addressed to id
Addressed(id) ==
  \/ \E data \in WriteData : socketWrite(id, data)
  \/ socketClose(id)
  \/ \E key \in MetaKeys : getMetadata(id, key)
  \/ \E key \in MetaKeys, value \in MetaValues : setMetadata(id, key, value)
  \/ \E key \in MetaKeys : deleteMetadata(id, key)

\* C35: once a terminal notification of a connection has been published,
\* every command addressed to its id fails with CONNECTION_NOT_FOUND, and
\* the command leaves the transports and the metadata as they were.
C35_CommandsFailAfterTerminal ==
  [][\A id \in Ids :
       (Terminal(id) # {} /\ Addressed(id)) =>
         /\ reply' = NotFound
         /\ UNCHANGED <<transports, connections>>]_vars

\* C36: the connection-opened notification of a connection is published
\* before every other notification that carries its id (data, metadata,
\* closed, errored, timed-out).
C36_OpenedFirst ==
  \A id \in Ids :
    \A i \in NotesOf(id) \ OpenedNotes(id) :
      \E j \in OpenedNotes(id) : j < i

\* reached: a connection with a data, a metadata and a terminal notification
C36_Witness ==
  \E id \in DOMAIN connections :
    /\ DataOf(id) # {}
    /\ Terminal(id) # {}
    /\ \E i \in NotesOf(id) : bus[i].topic = "tcp.socket.metadata.set"

\* C37: a command that fails with CONNECTION_NOT_FOUND has no side effect:
\* the step publishes nothing, writes to no transport and closes none, and
\* changes neither the metadata of any connection nor the registry.
C37_FailureHasNoEffect ==
  [][(reply' = NotFound /\ \E id \in Ids : Command(id)) =>
       UNCHANGED <<bus, transports, connections, closeCalls, server>>]_vars

\* reached: a command has failed while a connection with metadata of its
\* own is open
C37_Witness ==
  /\ reply = NotFound
  /\ \E id \in DOMAIN connections :
       /\ transports[connections[id].socket].state = "open"
       /\ "foo" \in DOMAIN connections[id].metadata

\* a step of setMetadata or deleteMetadata on key k of id
SetOrDelete(id, k) ==
  \/ \E v \in MetaValues : setMetadata(id, k, v)
  \/ deleteMetadata(id, k)

C39_GetIsReadOnly ==
  [][(\E id \in Ids, key \in MetaKeys \cup MergeKeys : getMetadata(id, key)) =>
       UNCHANGED <<connections, transports, bus, server, issued, closeCalls>>]_vars

\* reached: with two connections in the registry getMetadata has returned
\* the value stored under a key of one of them, and the value is still there
C39_Witness ==
  /\ Cardinality(DOMAIN connections) = 2
  /\ \E id \in DOMAIN connections, k \in MetaKeys :
       /\ Stored(id, k) \in MetaValues
       /\ reply = Returned(Stored(id, k))

====
